---- MODULE Spec2Model ----
(***************************************************************************)
(* Model of the swarm runtime of the agentic chatbot accelerator.          *)
(*                                                                         *)
(* The process hosting a swarm (lib/agent-core/docker-swarm/app.py) keeps  *)
(* one swarm in module-level variables and serves requests through the     *)
(* entrypoint invoke.  The orchestration itself (node invocation, handoff  *)
(* and iteration ceilings, timeouts, repetitive-handoff detection) is done *)
(* by strands.multiagent.Swarm, a third-party class the repository only    *)
(* constructs (factory.py:88-97) and calls (app.py:238); it appears here   *)
(* as an opaque call whose outcome is drawn from SwarmOutcomes.            *)
(***************************************************************************)
EXTENDS Integers, Sequences, FiniteSets, TLC

VARIABLES
    app,                 \* which runtime the process hosts: "swarm" or "agent"
    SWARM,               \* app.py:35  NoSwarm or the swarm built by create_swarm
    AGENT,               \* docker/app.py:42  NoSwarm or the agent built by create_agent
    CURRENT_SESSION_ID,  \* app.py:37  "None" or the session the swarm was built for
    CALLBACKS,           \* app.py:38  "None" or the AgentCallbacks of the swarm
    MCP_CLIENT_MANAGER,  \* app.py:39  NoManager or the MCPClientManager object
    AVAILABLE_MCPS,      \* registry.py:657  MCP server names loaded at import
    started,             \* MCP clients started and not stopped: <<manager id, server>>
    pc,                  \* position of the request being served inside invoke
    request,             \* the request being served (session id, isHeartbeat)
    requestNo,           \* requests received so far
    idx,                 \* init_mcp_clients: position in self.mcp_servers
    err,                 \* the exception caught by invoke's handler at app.py:213
    emitted,             \* payloads the current request has yielded to the caller
    escaped,             \* the exception that left invoke for the current request
    invoked,             \* the swarm or agent the current request has called, or NoSwarm
    \* the loop over a stream of events (app.py:70-110, docker/app.py:171-195)
    handler,             \* "None", "_handle_stream" or "invoke": the loop that runs
    events,              \* the events the swarm or agent produces in this run
    pos,                 \* number of events the loop has taken from the stream
    token_pos,           \* app.py:70 token_pos, docker/app.py:172 token_id
    yielded,             \* payloads the loop has yielded in this run
    runNo,               \* runs of the loop started so far
    \* loading and building a swarm (data_source.py, factory.py)
    lpc,                 \* position in loading and building
    document,            \* the configuration document read by parse_configuration
    loaded_agents,       \* data_source.py:209  definitions loaded for the references
    configuration,       \* the SwarmConfiguration handed to create_swarm
    swarm,               \* what create_swarm gave: "None", a swarm or an exception
    \* the final answer of a swarm call (app.py:238-283)
    result,              \* the SwarmResult returned by SWARM(user_message)
    payload,             \* the payload built from it
    \* validation of the configuration types (api_helper/types.py)
    data,                \* the field values given to a model's constructor
    model,               \* "None", the validated object or the validation error
    \* one MCPClientManager and its connections (docker/src/mcp_client.py)
    mcp_servers,         \* mcp_client.py:34  the server names the manager was built with
    mcp_clients,         \* mcp_client.py:33  dict as pairs <<server name, MCPClient>>
    active,              \* the open connections: <<server name, client>> with an active session
    next_client,         \* the number the next MCPClient object gets
    double_opened,       \* names for which start() was called with a connection open
    calls,               \* calls of the manager's methods so far
    last_call,           \* the last call: its method, the names it started and reused
    \* one evaluation run (api/functions/evaluation-resolver, evaluation-executor)
    Status,              \* the evaluator item's Status
    TotalCases,          \* the item's TotalCases
    CompletedCases,      \* the item's CompletedCases
    queue,               \* testCaseIndex of the messages visible in the SQS queue
    inflight,            \* executor invocations: the batch received and the position in it
    increments,          \* per test case, the increments of CompletedCases it has caused
    finalized,           \* _finalize_evaluation was called
    deliveries,          \* batches delivered so far
    evaluations,         \* calls of run_evaluation that started a run
    \* handle_run reading a response stream (genai-interface/functions/agent-core)
    response,            \* the events the agent runtime writes to the stream
    consumed,            \* bytes of the stream that handle_run has taken, as chunks
    utf8_pending,        \* bytes the incremental UTF-8 decoder holds back
    buffer,              \* index.py:199  text not yet parsed into events
    sent,                \* the events passed to send_to_client, in order
    run_raised,          \* the exception that left handle_run
    run_ended,           \* the loop over the chunks has ended
    split_char,          \* a chunk has ended inside a multi-byte character
    split_event          \* a chunk has ended inside an event

appvars == <<app, SWARM, AGENT, CURRENT_SESSION_ID, CALLBACKS, MCP_CLIENT_MANAGER,
             AVAILABLE_MCPS, started, pc, request, requestNo, idx, err, emitted,
             escaped, invoked>>

streamvars == <<handler, events, pos, token_pos, yielded, runNo>>

loadvars == <<lpc, document, loaded_agents, configuration, swarm>>

answervars == <<result, payload>>

typevars == <<data, model>>

mcpvars == <<mcp_servers, mcp_clients, active, next_client, double_opened, calls,
             last_call>>

evalvars == <<Status, TotalCases, CompletedCases, queue, inflight, increments,
              finalized, deliveries, evaluations>>

ssevars == <<response, consumed, utf8_pending, buffer, sent, run_raised, run_ended,
             split_char, split_event>>

extvars == <<mcpvars, evalvars, ssevars>>

vars == <<appvars, streamvars, loadvars, answervars, typevars, extvars>>

(***************************************************************************)
(* Bounds of the model.                                                    *)
(***************************************************************************)
MaxRequests == 3
MaxVisits == 4

SessionIds == {"s1", "s2"}
McpServers == {"m1", "m2"}
NodeIds == {"a", "b"}

None == "None"

\* Python's None in a variable that otherwise holds an object
NoManager == [id |-> 0, mcp_servers |-> <<>>, mcp_clients |-> {}]
NoSwarm == [session_id |-> None, mcp_tools |-> {}]
NoRequest == [session_id |-> None, isHeartbeat |-> FALSE]

(***************************************************************************)
(* Python's binding of a call's arguments to a function's parameters: the  *)
(* call raises TypeError unless every keyword names a parameter that no    *)
(* positional argument has filled and every parameter without a default    *)
(* gets a value.                                                           *)
(***************************************************************************)
CallBinds(params, defaults, npositional, keywords) ==
    /\ npositional <= Len(params)
    /\ keywords \subseteq {params[i] : i \in (npositional + 1)..Len(params)}
    /\ \A i \in (npositional + 1)..Len(params) :
          params[i] \in keywords \/ params[i] \in defaults

\* factory.py:46-51  def create_swarm(configuration, logger, mcp_client_manager,
\*                                    session_manager=None)
create_swarm_params ==
    <<"configuration", "logger", "mcp_client_manager", "session_manager">>

create_swarm_defaults == {"session_manager"}

\* app.py:195-202  create_swarm(configuration, logger, session_id=..., user_id=...,
\*                              mcp_client_manager=..., session_manager=None)
invoke_create_swarm_keywords ==
    {"session_id", "user_id", "mcp_client_manager", "session_manager"}

invoke_create_swarm_binds ==
    CallBinds(create_swarm_params, create_swarm_defaults, 2,
              invoke_create_swarm_keywords)

(***************************************************************************)
(* MCPClientManager (lib/agent-core/docker/src/mcp_client.py).  A manager  *)
(* is [id, mcp_servers, mcp_clients]: mcp_servers is the list it was built *)
(* with and mcp_clients the names that hold a started client.              *)
(***************************************************************************)
Orderings(S) ==
    {f \in [1..Cardinality(S) -> S] : \A i, j \in 1..Cardinality(S) : f[i] = f[j] => i = j}

MCPClientManager(id, servers) ==
    [id |-> id, mcp_servers |-> servers, mcp_clients |-> {}]

keep_connections(mgr, conns) == conns

\* mcp_client.py:147-160: stop every client of the manager and clear the dict
cleanup_connections_started(mgr, conns) ==
    conns \ {<<mgr.id, s>> : s \in mgr.mcp_clients}

cleanup_connections_manager(mgr) ==
    [mgr EXCEPT !.mcp_clients = {}]

\* mcp_client.py:162-177 load_mcp_tools: the tools of every client the
\* manager holds, written as the connections <<manager id, server>> they use
load_mcp_tools(mgr) == {<<mgr.id, s>> : s \in mgr.mcp_clients}

(***************************************************************************)
(* The outcome of SWARM(user_message) as invoke sees it (app.py:238-266):  *)
(* an exception, or a result with node_history (the visits, a sequence of  *)
(* node ids) and results (a mapping from node id to that node's result).   *)
(* The result that the i-th visit produced is written [node, visit |-> i]. *)
(* results is keyed by node id, so it holds one result for a node however  *)
(* often the node was visited; which of the node's visits it is the result *)
(* of is the swarm's choice, and results[n] is written as the number of    *)
(* that visit.  results may lack a visited node.                           *)
(***************************************************************************)
Histories == UNION {[1..n -> NodeIds] : n \in 0..MaxVisits}

VisitResult(h, i) == [node |-> h[i], visit |-> i]

\* the mappings results can be for the visits h
ResultsOf(h) ==
    UNION {{r \in [keys -> 1..Len(h)] : \A n \in keys : h[r[n]] = n} :
              keys \in SUBSET {h[i] : i \in 1..Len(h)}}

SwarmOutcomes ==
    {[kind |-> "raise"]} \cup
    UNION {{[kind |-> "result", node_history |-> h, results |-> r] : r \in ResultsOf(h)} :
              h \in Histories}

\* app.py:255-266: the lookups results[node.node_id] for every visit and
\* node_history[-1]; an empty history raises IndexError, a visit without a
\* result raises KeyError
FinalAnswerRaises(out) ==
    \/ out.kind = "raise"
    \/ out.node_history = <<>>
    \/ \E i \in 1..Len(out.node_history) : out.node_history[i] \notin DOMAIN out.results

\* results[node_id].result
StoredResult(out, node_id) == VisitResult(out.node_history, out.results[node_id])

AllNodes(node_history) == node_history

\* app.py:258 result.node_history[:-1]
PriorNodes(node_history) == SubSeq(node_history, 1, Len(node_history) - 1)

\* app.py:255-261: the sections of the reasoning text, "## Agent {i + 1}"
\* followed by the result stored for the node, for the i-th of the prior
\* nodes counted from 0
ReasoningSections(out) ==
    [i \in 1..Len(PriorNodes(out.node_history)) |->
        [label |-> i, text |-> StoredResult(out, PriorNodes(out.node_history)[i])]]

\* app.py:255-283 and 285-288: the payload invoke yields for a swarm call;
\* reasoningContent is left out when there is no section (app.py:271),
\* written here as the empty sequence
FinalAnswerPayload(out) ==
    IF FinalAnswerRaises(out)
    THEN [action |-> "error"]
    ELSE [action |-> "final_response",
          content |-> StoredResult(out, out.node_history[Len(out.node_history)]),
          reasoningContent |-> ReasoningSections(out)]

(***************************************************************************)
(* The events of a run as the loops over them see them.  An event of the   *)
(* agent (docker/app.py:177, 197), or of the swarm as SwarmCaller.         *)
(* invoke_stream passes it on (runner.py:164-195), carries text ("data"),  *)
(* carries the result of the run ("result") or is neither ("other": a tool *)
(* event, a handoff, a node event without data, a result event without a   *)
(* result).  "raise" stands for the stream raising instead of giving its   *)
(* next event, which ends the stream.                                      *)
(***************************************************************************)
MaxEvents == 3
MaxRuns == 2

TokenValues == {"x", "y"}

StreamEvents ==
    {[kind |-> "data", value |-> v] : v \in TokenValues} \cup
    {[kind |-> k, value |-> None] : k \in {"result", "other", "raise"}}

EventStreams ==
    {s \in UNION {[1..n -> StreamEvents] : n \in 0..MaxEvents} :
        \A i \in 1..Len(s) : s[i].kind = "raise" => i = Len(s)}

\* app.py:83-97, docker/app.py:178-192: the payload of one token
Token(sequenceNumber, value) ==
    [action |-> "on_new_llm_token", sequenceNumber |-> sequenceNumber, value |-> value]

\* app.py:70, docker/app.py:172: the sequence number of a run's first token
FirstTokenPos == 0

SameTokenPos(n) == n

\* app.py:110 token_pos += 1, docker/app.py:195 token_id += 1
NextTokenPos(n) == n + 1

\* what a loop yields on taking one event with its counter at n: a token for
\* text (app.py:83-109, docker/app.py:177-194); the final answer for the
\* result (docker/app.py:197-290; app.py:77-79 and 112-130, after leaving
\* the loop); an error payload for an exception in the agent's loop
\* (docker/app.py:291-293), nothing in _handle_stream, which has no handler
StreamYield(h, e, n) ==
    CASE e.kind = "data" -> <<Token(n, e.value)>>
      [] e.kind = "result" -> <<[action |-> "final_response"]>>
      [] e.kind = "raise" /\ h = "invoke" -> <<[action |-> "error"]>>
      [] OTHER -> <<>>

\* the counter after the event
StreamCounter(e, n) == IF e.kind = "data" THEN NextTokenPos(n) ELSE n

\* the event after which a loop takes no more events: an exception, and in
\* _handle_stream the result (app.py:77-79 break)
StreamStops(h, e) ==
    e.kind = "raise" \/ (h = "_handle_stream" /\ e.kind = "result")

\* everything a loop yields over the events evs from the i-th on; when the
\* stream ends without a result _handle_stream still yields the final answer
\* (app.py:112-130), with the empty final_answer of app.py:72
RECURSIVE StreamYields(_, _, _, _)
StreamYields(h, evs, i, n) ==
    IF i > Len(evs)
    THEN IF h = "_handle_stream" THEN <<[action |-> "final_response"]>> ELSE <<>>
    ELSE StreamYield(h, evs[i], n) \o
         (IF StreamStops(h, evs[i])
          THEN <<>>
          ELSE StreamYields(h, evs, i + 1, StreamCounter(evs[i], n)))

(***************************************************************************)
(* invoke, app.py:221-288: what follows the initialisation, reached only   *)
(* with a swarm in SWARM.  A heartbeat returns without calling the swarm;  *)
(* any other request calls it once and yields one payload, the handler at  *)
(* app.py:285-288 turning every exception into an error payload.           *)
(***************************************************************************)
RunSwarm ==
    /\ IF request'.isHeartbeat
       THEN /\ emitted' = <<>>
            /\ invoked' = NoSwarm
       ELSE /\ \E out \in SwarmOutcomes : emitted' = <<FinalAnswerPayload(out)>>
            /\ invoked' = SWARM'
    /\ escaped' = None
    /\ pc' = "idle"

(***************************************************************************)
(* invoke, docker/app.py:154-293: the same for the agent, which is called  *)
(* through stream_async and yields a payload per token and for the result; *)
(* the handler at docker/app.py:291-293 turns an exception into an error   *)
(* payload.                                                                *)
(***************************************************************************)
\* what the loop of docker/app.py:171-293 yields over the streams an agent
\* can produce
AgentRunYields ==
    {StreamYields("invoke", evs, 1, FirstTokenPos) : evs \in EventStreams}

RunAgent ==
    /\ IF request'.isHeartbeat
       THEN /\ emitted' = <<>>
            /\ invoked' = NoSwarm
       ELSE /\ emitted' \in AgentRunYields
            /\ invoked' = AGENT'
    /\ escaped' = None
    /\ pc' = "idle"

\* the parts of the state that serving requests leaves alone
notApp == <<streamvars, loadvars, answervars, typevars, extvars>>

StreamIdle ==
    /\ handler = None
    /\ events = <<>>
    /\ pos = 0
    /\ token_pos = 0
    /\ yielded = <<>>
    /\ runNo = 0

\* no document, no configuration and no result of create_swarm
NoDocument == [agents |-> <<>>, agentReferences |-> <<>>, entryAgent |-> <<>>]

NoConfiguration ==
    [valid |-> FALSE, agents |-> <<>>, agentReferences |-> <<>>, entryAgent |-> <<>>]

NotCalled == [kind |-> "None", nodes |-> {}, entry_point |-> <<>>]

LoadIdle ==
    /\ lpc = None
    /\ document = NoDocument
    /\ loaded_agents = <<>>
    /\ configuration = NoConfiguration
    /\ swarm = NotCalled

AnswerIdle ==
    /\ result = [kind |-> "None"]
    /\ payload = [action |-> "None"]

TypesIdle ==
    /\ data = [model |-> "None"]
    /\ model = [kind |-> "None"]

NoCall == [method |-> None, started |-> {}, reused |-> {}]

\* no manager under observation
McpIdle ==
    /\ mcp_servers = <<>>
    /\ mcp_clients = {}
    /\ active = {}
    /\ next_client = 1
    /\ double_opened = {}
    /\ calls = 0
    /\ last_call = NoCall

MaxCases == 2

TestCases == 0..(MaxCases - 1)

\* no evaluator item and no message
EvalIdle ==
    /\ Status = None
    /\ TotalCases = 0
    /\ CompletedCases = 0
    /\ queue = {}
    /\ inflight = {}
    /\ increments = [i \in TestCases |-> 0]
    /\ finalized = FALSE
    /\ deliveries = 0
    /\ evaluations = 0

\* no response stream
SseIdle ==
    /\ response = <<>>
    /\ consumed = 0
    /\ utf8_pending = <<>>
    /\ buffer = <<>>
    /\ sent = <<>>
    /\ run_raised = None
    /\ run_ended = TRUE
    /\ split_char = FALSE
    /\ split_event = FALSE

ExtIdle == McpIdle /\ EvalIdle /\ SseIdle

\* the module-level state of a process that has served no request
AppStart ==
    /\ SWARM = NoSwarm
    /\ AGENT = NoSwarm
    /\ CURRENT_SESSION_ID = None
    /\ CALLBACKS = None
    /\ MCP_CLIENT_MANAGER = NoManager
    /\ started = {}
    /\ pc = "idle"
    /\ request = NoRequest
    /\ requestNo = 0
    /\ idx = 0
    /\ err = None
    /\ emitted = <<>>
    /\ escaped = None
    /\ invoked = NoSwarm

\* the process of the swarm runtime
Init ==
    /\ app = "swarm"
    /\ AVAILABLE_MCPS \in SUBSET McpServers
    /\ AppStart
    /\ StreamIdle /\ LoadIdle /\ AnswerIdle /\ TypesIdle /\ ExtIdle

\* the swarm or agent the process keeps (app.py:35, docker/app.py:42)
Cached == IF app = "swarm" THEN SWARM ELSE AGENT

(***************************************************************************)
(* invoke, app.py:133-161: a request arrives; the swarm is initialised     *)
(* when there is none or the session changed, after the previous session's *)
(* MCP connections were cleaned up.  The agent runtime has the same lines  *)
(* for its agent (docker/app.py:55-96).                                    *)
(***************************************************************************)
InitDueWithoutSwarm(session_id) == Cached = NoSwarm

\* app.py:148, docker/app.py:78
InitDue(session_id) == Cached = NoSwarm \/ CURRENT_SESSION_ID # session_id

CleanupNeverDue(session_id) == FALSE

\* app.py:150, docker/app.py:85
CleanupDue(session_id) ==
    MCP_CLIENT_MANAGER # NoManager /\ CURRENT_SESSION_ID # session_id

Receive(session_id, isHeartbeat) ==
    /\ pc = "idle"
    /\ requestNo < MaxRequests
    /\ requestNo' = requestNo + 1
    /\ request' = [session_id |-> session_id, isHeartbeat |-> isHeartbeat]
    /\ err' = None
    /\ idx' = 0
    /\ UNCHANGED <<app, SWARM, AGENT, CURRENT_SESSION_ID, CALLBACKS, AVAILABLE_MCPS>>
    /\ IF InitDue(session_id)
       THEN /\ pc' = "parse_configuration"
            /\ emitted' = <<>>
            /\ escaped' = None
            /\ invoked' = NoSwarm
            /\ IF CleanupDue(session_id)
               THEN /\ started' = cleanup_connections_started(MCP_CLIENT_MANAGER, started)
                    /\ MCP_CLIENT_MANAGER' = cleanup_connections_manager(MCP_CLIENT_MANAGER)
               ELSE UNCHANGED <<started, MCP_CLIENT_MANAGER>>
       ELSE /\ IF app = "swarm" THEN RunSwarm ELSE RunAgent
            /\ UNCHANGED <<started, MCP_CLIENT_MANAGER>>
    /\ UNCHANGED notApp

(***************************************************************************)
(* invoke, app.py:164-183: parse_configuration raises (data_source.py:     *)
(* 186-204, utils.py:15-20) or returns the configuration, of which the     *)
(* union of the agents' mcpServers matters here; a non-empty union makes a *)
(* new MCPClientManager over list(all_mcp_servers).                        *)
(***************************************************************************)
ParseConfigurationRaises(exc) ==
    /\ pc = "parse_configuration"
    /\ err' = exc
    /\ pc' = "except"
    /\ UNCHANGED <<app, SWARM, AGENT, CURRENT_SESSION_ID, CALLBACKS,
                   MCP_CLIENT_MANAGER, AVAILABLE_MCPS, started, request, requestNo,
                   idx, emitted, escaped, invoked>>
    /\ UNCHANGED notApp

ParseConfigurationReturns(all_mcp_servers) ==
    /\ pc = "parse_configuration"
    /\ IF all_mcp_servers # {}
       THEN \E servers \in Orderings(all_mcp_servers) :
               /\ MCP_CLIENT_MANAGER' = MCPClientManager(requestNo, servers)
               /\ idx' = 1
               /\ pc' = "init_mcp_clients"
       ELSE /\ pc' = "create"
            /\ UNCHANGED <<MCP_CLIENT_MANAGER, idx>>
    /\ UNCHANGED <<app, SWARM, AGENT, CURRENT_SESSION_ID, CALLBACKS, AVAILABLE_MCPS,
                   started, request, requestNo, err, emitted, escaped, invoked>>
    /\ UNCHANGED notApp

(***************************************************************************)
(* MCPClientManager.init_mcp_clients, mcp_client.py:116-145, one server of *)
(* self.mcp_servers per step: a name that is not in AVAILABLE_MCPS raises  *)
(* ValueError (mcp_client.py:75-79); start() opens the connection or       *)
(* raises, and only a started client is kept in mcp_clients.               *)
(***************************************************************************)
InitMcpClient(startRaises) ==
    /\ pc = "init_mcp_clients"
    /\ idx <= Len(MCP_CLIENT_MANAGER.mcp_servers)
    /\ LET name == MCP_CLIENT_MANAGER.mcp_servers[idx] IN
       IF name \in MCP_CLIENT_MANAGER.mcp_clients
       THEN \* an existing client with an active session is reused
            /\ idx' = idx + 1
            /\ UNCHANGED <<MCP_CLIENT_MANAGER, started, err, pc>>
       ELSE IF name \notin AVAILABLE_MCPS
       THEN /\ err' = "ValueError"
            /\ pc' = "except"
            /\ UNCHANGED <<MCP_CLIENT_MANAGER, started, idx>>
       ELSE IF startRaises
       THEN /\ err' = "MCPClientInitializationError"
            /\ pc' = "except"
            /\ UNCHANGED <<MCP_CLIENT_MANAGER, started, idx>>
       ELSE /\ started' = started \cup {<<MCP_CLIENT_MANAGER.id, name>>}
            /\ MCP_CLIENT_MANAGER' =
                 [MCP_CLIENT_MANAGER EXCEPT !.mcp_clients = @ \cup {name}]
            /\ idx' = idx + 1
            /\ UNCHANGED <<err, pc>>
    /\ UNCHANGED <<app, SWARM, AGENT, CURRENT_SESSION_ID, CALLBACKS, AVAILABLE_MCPS,
                   request, requestNo, emitted, escaped, invoked>>
    /\ UNCHANGED notApp

InitMcpClientsDone ==
    /\ pc = "init_mcp_clients"
    /\ idx > Len(MCP_CLIENT_MANAGER.mcp_servers)
    /\ pc' = "create"
    /\ UNCHANGED <<app, SWARM, AGENT, CURRENT_SESSION_ID, CALLBACKS,
                   MCP_CLIENT_MANAGER, AVAILABLE_MCPS, started, request, requestNo,
                   idx, err, emitted, escaped, invoked>>
    /\ UNCHANGED notApp

(***************************************************************************)
(* invoke, app.py:195-211: the call of create_swarm.  When the arguments   *)
(* bind, the swarm is stored and the session recorded, and invoke goes on  *)
(* to app.py:221; when they do not, the call raises TypeError.             *)
(***************************************************************************)
CreateSwarm ==
    /\ pc = "create"
    /\ app = "swarm"
    /\ request' = request
    /\ IF invoke_create_swarm_binds
       THEN /\ SWARM' = [session_id |-> request.session_id,
                       mcp_tools |-> load_mcp_tools(MCP_CLIENT_MANAGER)]
            /\ CALLBACKS' = "AgentCallbacks"
            /\ CURRENT_SESSION_ID' = request.session_id
            /\ RunSwarm
            /\ UNCHANGED err
       ELSE /\ err' = "TypeError"
            /\ pc' = "except"
            /\ UNCHANGED <<SWARM, CALLBACKS, CURRENT_SESSION_ID, emitted, escaped,
                           invoked>>
    /\ UNCHANGED <<app, AGENT, MCP_CLIENT_MANAGER, AVAILABLE_MCPS, started,
                   requestNo, idx>>
    /\ UNCHANGED notApp

(***************************************************************************)
(* invoke, docker/app.py:109-144: the call of create_agent, whose          *)
(* arguments bind (docker/src/factory.py:53-61).  With a manager it loads  *)
(* the MCP tools (docker/src/factory.py:252-253), which first initialises  *)
(* the clients of a manager that holds none: nstarted of its servers start *)
(* before one fails, or all do.  create_agent raises when that, building   *)
(* the model, the tools or the agent fails, or the agent built for the     *)
(* request's session is stored with the session, and invoke goes on to     *)
(* docker/app.py:154.                                                      *)
(***************************************************************************)
CreateAgent(raises, nstarted) ==
    /\ pc = "create"
    /\ app = "agent"
    /\ request' = request
    /\ LET mgr == MCP_CLIENT_MANAGER
           \* mcp_client.py:171-172: a manager without clients initialises them
           reinit == mgr # NoManager /\ mgr.mcp_clients = {}
           n == IF reinit THEN Len(mgr.mcp_servers) ELSE 0
           loaded == IF reinit
                     THEN [mgr EXCEPT !.mcp_clients =
                                        {mgr.mcp_servers[i] : i \in 1..nstarted}]
                     ELSE mgr
       IN  /\ nstarted <= n
           /\ \A i \in 1..nstarted : mgr.mcp_servers[i] \in AVAILABLE_MCPS
           /\ MCP_CLIENT_MANAGER' = loaded
           /\ started' = started \cup load_mcp_tools(loaded)
           /\ IF nstarted < n
              THEN /\ err' = IF mgr.mcp_servers[nstarted + 1] \in AVAILABLE_MCPS
                             THEN "MCPClientInitializationError"
                             ELSE "ValueError"
                   /\ pc' = "except"
                   /\ UNCHANGED <<AGENT, CALLBACKS, CURRENT_SESSION_ID, emitted,
                                  escaped, invoked>>
              ELSE IF raises
              THEN /\ err' = "Exception"
                   /\ pc' = "except"
                   /\ UNCHANGED <<AGENT, CALLBACKS, CURRENT_SESSION_ID, emitted,
                                  escaped, invoked>>
              ELSE /\ AGENT' = [session_id |-> request.session_id,
                                mcp_tools |-> load_mcp_tools(loaded)]
                   /\ CALLBACKS' = "AgentCallbacks"
                   /\ CURRENT_SESSION_ID' = request.session_id
                   /\ RunAgent
                   /\ UNCHANGED err
    /\ UNCHANGED <<app, SWARM, AVAILABLE_MCPS, requestNo, idx>>
    /\ UNCHANGED notApp

(***************************************************************************)
(* invoke, app.py:213-219: the handler of a failed initialisation cleans   *)
(* up the manager's connections and raises the exception again, which      *)
(* leaves invoke.                                                          *)
(***************************************************************************)
InitFailed ==
    /\ pc = "except"
    /\ IF MCP_CLIENT_MANAGER # NoManager
       THEN /\ started' = cleanup_connections_started(MCP_CLIENT_MANAGER, started)
            /\ MCP_CLIENT_MANAGER' = cleanup_connections_manager(MCP_CLIENT_MANAGER)
       ELSE UNCHANGED <<started, MCP_CLIENT_MANAGER>>
    /\ escaped' = err
    /\ pc' = "idle"
    /\ UNCHANGED <<app, SWARM, AGENT, CURRENT_SESSION_ID, CALLBACKS, AVAILABLE_MCPS,
                   request, requestNo, idx, err, emitted, invoked>>
    /\ UNCHANGED notApp

ParseErrors == {"ClientError", "ValueError", "ValidationError"}

Next ==
    \/ \E s \in SessionIds, hb \in BOOLEAN : Receive(s, hb)
    \/ \E exc \in ParseErrors : ParseConfigurationRaises(exc)
    \/ \E servers \in SUBSET McpServers : ParseConfigurationReturns(servers)
    \/ \E startRaises \in BOOLEAN : InitMcpClient(startRaises)
    \/ InitMcpClientsDone
    \/ CreateSwarm
    \/ InitFailed

Spec == Init /\ [][Next]_vars

(***************************************************************************)
(* A process of either runtime: the swarm's (docker-swarm/app.py) or the   *)
(* single agent's (docker/app.py).                                         *)
(***************************************************************************)
InitApps ==
    /\ app \in {"swarm", "agent"}
    /\ AVAILABLE_MCPS \in SUBSET McpServers
    /\ AppStart
    /\ StreamIdle /\ LoadIdle /\ AnswerIdle /\ TypesIdle /\ ExtIdle

NextApps ==
    \/ Next
    \/ \E raises \in BOOLEAN, nstarted \in 0..Cardinality(McpServers) :
          CreateAgent(raises, nstarted)

SpecApps == InitApps /\ [][NextApps]_vars

(***************************************************************************)
(* The exceptions of loading the configuration and of opening the MCP      *)
(* connections: the failures of building a swarm that leave invoke by      *)
(* design (app.py:213-219), before a run is started.                       *)
(***************************************************************************)
BuildErrors == ParseErrors \cup {"MCPClientInitializationError"}

\* C10: every request that was served to its end and did not fail while its
\* configuration was loaded or its MCP connections were opened (so that a run
\* was due) left no exception escaping the entrypoint invoke, and, unless it
\* was a heartbeat, delivered exactly one structured payload to the caller.
C10_EveryRunEndsStructured ==
    (pc = "idle" /\ requestNo > 0 /\ escaped \notin BuildErrors) =>
        /\ escaped = None
        /\ (~request.isHeartbeat => Len(emitted) = 1)

(***************************************************************************)
(* The outcome of the swarm call in the scenario of the researcher, node   *)
(* "a", that hands off to the writer, node "b", which gives the final      *)
(* answer: two visits, a result for each.                                  *)
(***************************************************************************)
HappyPathOutcome ==
    [kind |-> "result", node_history |-> <<"a", "b">>,
     results |-> [n \in {"a", "b"} |-> IF n = "a" THEN 1 ELSE 2]]

\* C11: in the scenario of the researcher that hands off to the writer, every
\* request that carries a user message and whose swarm could be loaded ends
\* with the caller holding exactly the final answer of the two visits: the
\* writer's result as content, the researcher's as the one earlier section.
C11_HappyPathAnswerDelivered ==
    (pc = "idle" /\ requestNo > 0 /\ ~request.isHeartbeat /\ escaped \notin BuildErrors) =>
        emitted = <<FinalAnswerPayload(HappyPathOutcome)>>

\* C16: whenever a request has called a swarm or agent, that swarm or agent
\* was constructed for the session of the request.
C16_InvokedForItsSession ==
    invoked # NoSwarm => invoked.session_id = request.session_id

\* a request has called the cached agent, built by an earlier request whose
\* MCP connections are still open
C16_Witness ==
    /\ invoked # NoSwarm
    /\ started # {}
    /\ \A c \in started : c[1] < requestNo

\* C17: at no time are MCP connections of two managers, hence of two
\* sessions, open together, and when the swarm or agent of a request is about
\* to be constructed no connection of an earlier manager is open.
C17_TeardownBeforeRebuild ==
    /\ \A c, d \in started : c[1] = d[1]
    /\ pc = "create" => \A c \in started : c[1] = requestNo

\* the second request, of another session than the cached agent's, is about
\* to construct its agent, and the connections the first request had opened
\* for its servers are closed
C17_Witness ==
    /\ pc = "create"
    /\ requestNo = 2
    /\ Cached # NoSwarm
    /\ Cached.session_id # request.session_id
    /\ MCP_CLIENT_MANAGER.id = 1
    /\ MCP_CLIENT_MANAGER.mcp_servers # <<>>
    /\ MCP_CLIENT_MANAGER.mcp_clients = {}
    /\ started = {}

notStream == <<appvars, loadvars, answervars, typevars, extvars>>

\* no process serves requests
AppIdle ==
    /\ app = None
    /\ AVAILABLE_MCPS = {}
    /\ AppStart

InitStream == AppIdle /\ StreamIdle /\ LoadIdle /\ AnswerIdle /\ TypesIdle /\ ExtIdle

\* the loop of the run has ended
StreamFinished ==
    \/ handler = None
    \/ handler = "invoke" /\ pos = Len(events)
    \/ /\ handler = "_handle_stream"
       /\ \/ pos > 0 /\ events[pos].kind = "raise"
          \/ yielded # <<>> /\ yielded[Len(yielded)].action = "final_response"

\* app.py:70-76, docker/app.py:171-176: a run starts
StartRun(h, evs) ==
    /\ StreamFinished
    /\ runNo < MaxRuns
    /\ runNo' = runNo + 1
    /\ handler' = h
    /\ events' = evs
    /\ pos' = 0
    /\ token_pos' = FirstTokenPos
    /\ yielded' = <<>>
    /\ UNCHANGED notStream

\* app.py:74-110, docker/app.py:173-290: the loop takes the next event
TakeEvent ==
    /\ ~StreamFinished
    /\ pos < Len(events)
    /\ pos' = pos + 1
    /\ yielded' = yielded \o StreamYield(handler, events[pos + 1], token_pos)
    /\ token_pos' = StreamCounter(events[pos + 1], token_pos)
    /\ UNCHANGED <<handler, events, runNo>>
    /\ UNCHANGED notStream

\* app.py:112-130: the stream ended without a result and _handle_stream
\* yields the final answer all the same
StreamEnds ==
    /\ ~StreamFinished
    /\ handler = "_handle_stream"
    /\ pos = Len(events)
    /\ yielded' = Append(yielded, [action |-> "final_response"])
    /\ UNCHANGED <<handler, events, pos, token_pos, runNo>>
    /\ UNCHANGED notStream

NextStream ==
    \/ \E h \in {"_handle_stream", "invoke"}, evs \in EventStreams : StartRun(h, evs)
    \/ TakeEvent
    \/ StreamEnds

SpecStream == InitStream /\ [][NextStream]_vars

\* the texts of the events the loop has taken, in the order of the stream
Produced ==
    SelectSeq(SubSeq(events, 1, pos), LAMBDA e : e.kind = "data")

\* the tokens the loop has yielded, in the order it yielded them
Tokens ==
    SelectSeq(yielded, LAMBDA p : p.action = "on_new_llm_token")

\* C14: in every run the tokens yielded so far carry, in the same order, the
\* texts the swarm or agent has produced so far; every token's sequence number
\* is greater than that of the token before it, and the number 0 is carried by
\* the first token of a run and by no other.
C14_TokensInOrder ==
    /\ Len(Tokens) = Len(Produced)
    /\ \A i \in 1..Len(Tokens) :
          /\ Tokens[i].value = Produced[i].value
          /\ i > 1 => Tokens[i].sequenceNumber > Tokens[i - 1].sequenceNumber
          /\ Tokens[i].sequenceNumber = 0 <=> i = 1

\* the second run has yielded two tokens with different texts, after other
\* events, the numbering having started again
C14_Witness ==
    /\ runNo = 2
    /\ Len(Tokens) >= 2
    /\ Tokens[1].value # Tokens[2].value
    /\ pos > Len(Tokens)

(***************************************************************************)
(* Names.  A name is a sequence of characters.  The characters of the      *)
(* model are a letter, an underscore and a space, and the letters of the   *)
(* prefix that sanitizing may add.                                         *)
(***************************************************************************)
MaxNameLen == 2
MaxAgents == 2

NameChars == {"a", "_", " "}

RawNames == UNION {[1..n -> NameChars] : n \in 1..MaxNameLen}

\* str.isalnum on a character the pattern of types.py:307 has kept
IsAlnum(c) == c \in {"a", "e", "g", "n", "t", "A", "1"}

\* types.py:307: the characters that [^a-zA-Z0-9-_/] does not match
IsKept(c) == IsAlnum(c) \/ c \in {"-", "_", "/"}

keep_name(name) == name

\* SwarmAgentDefinition.validate_and_sanitize_name, types.py:304-313
validate_and_sanitize_name(name) ==
    LET sanitized == [i \in 1..Len(name) |-> IF IsKept(name[i]) THEN name[i] ELSE "_"]
    IN  IF sanitized # <<>> /\ ~IsAlnum(sanitized[1])
        THEN <<"a", "g", "e", "n", "t", "_">> \o sanitized
        ELSE IF sanitized = <<>>
        THEN <<"a", "g", "e", "n", "t">>
        ELSE sanitized

\* the agent definition constructed for a name; of its fields the name
\* matters to building the swarm
SwarmAgentDefinition(name) == [name |-> validate_and_sanitize_name(name)]

AgentNames(agents) == {agents[i].name : i \in 1..Len(agents)}

NameLists == UNION {[1..n -> RawNames] : n \in 0..MaxAgents}

\* the values of entryAgent: names as written and as sanitized
EntryNames == RawNames \cup {validate_and_sanitize_name(n) : n \in RawNames}

(***************************************************************************)
(* The validators of the swarm runtime's SwarmConfiguration, whose module  *)
(* (docker-swarm/src/types.py) is not among the sources; its tests are     *)
(* (tests/test_types.py:112-131).  A configuration with agents must name   *)
(* them uniquely and have its entryAgent among them; one with references   *)
(* only is held to the same over the references' names, as the validators  *)
(* of the shared type are (api_helper/types.py:342-361).                   *)
(***************************************************************************)
validate_unique_agent_names(agents, agentReferences) ==
    IF agents # <<>>
    THEN Cardinality(AgentNames(agents)) = Len(agents)
    ELSE Cardinality({agentReferences[i] : i \in 1..Len(agentReferences)})
             = Len(agentReferences)

validate_entry_agent(agents, agentReferences, entryAgent) ==
    IF agents # <<>>
    THEN entryAgent \in AgentNames(agents)
    ELSE entryAgent \in {agentReferences[i] : i \in 1..Len(agentReferences)}

\* the outcome of constructing a SwarmConfiguration: the object, or, marked
\* by valid = FALSE, a ValidationError
SwarmConfiguration(agents, agentReferences, entryAgent) ==
    [valid |-> /\ validate_unique_agent_names(agents, agentReferences)
               /\ validate_entry_agent(agents, agentReferences, entryAgent),
     agents |-> agents,
     agentReferences |-> agentReferences,
     entryAgent |-> entryAgent]

unvalidated_configuration(parsed_cfg, loaded) ==
    [valid |-> TRUE, agents |-> loaded, agentReferences |-> <<>>,
     entryAgent |-> parsed_cfg.entryAgent]

\* parse_configuration, data_source.py:219-225: the configuration is
\* constructed anew from the loaded agents
resolved_configuration(parsed_cfg, loaded) ==
    SwarmConfiguration(loaded, <<>>, parsed_cfg.entryAgent)

first_agent(cfg) == cfg.agents[1].name

\* create_swarm, factory.py:67-81: entry_point_agent after the loop over
\* configuration.agents, written as the name of that agent, <<>> for None
entry_point_agent(cfg) ==
    IF \E i \in 1..Len(cfg.agents) : cfg.agents[i].name = cfg.entryAgent
    THEN cfg.entryAgent
    ELSE <<>>

\* create_swarm, factory.py:67-97: ValueError without an entry point, else
\* the swarm over the agents of the dict keyed by name
create_swarm(cfg) ==
    IF entry_point_agent(cfg) = <<>>
    THEN [kind |-> "ValueError", nodes |-> {}, entry_point |-> <<>>]
    ELSE [kind |-> "Swarm", nodes |-> AgentNames(cfg.agents),
          entry_point |-> entry_point_agent(cfg)]

notLoad == <<appvars, streamvars, answervars, typevars, extvars>>

\* deserialize(configuration_str, SwarmConfiguration), data_source.py:206
\* (utils.py:15-22): the document is validated; a configuration of
\* references without agents goes on to load them (data_source.py:208)
Deserialize ==
    /\ lpc = "deserialize"
    /\ LET agents == [i \in 1..Len(document.agents) |->
                         SwarmAgentDefinition(document.agents[i])]
           parsed_cfg == SwarmConfiguration(agents, document.agentReferences,
                                            document.entryAgent)
       IN  /\ configuration' = parsed_cfg
           /\ lpc' = IF ~parsed_cfg.valid THEN "raised"
                     ELSE IF parsed_cfg.agentReferences # <<>> /\ parsed_cfg.agents = <<>>
                     THEN "load"
                     ELSE "create_swarm"
    /\ UNCHANGED <<document, loaded_agents, swarm>>
    /\ UNCHANGED notLoad

\* data_source.py:215-217 with _load_agent_config, data_source.py:62-154:
\* the next reference is loaded into a definition named by the reference's
\* agentName, or loading it raises
LoadAgentConfig(raises) ==
    /\ lpc = "load"
    /\ Len(loaded_agents) < Len(configuration.agentReferences)
    /\ IF raises
       THEN /\ lpc' = "raised"
            /\ UNCHANGED loaded_agents
       ELSE /\ loaded_agents' = Append(loaded_agents,
                SwarmAgentDefinition(configuration.agentReferences[Len(loaded_agents) + 1]))
            /\ UNCHANGED lpc
    /\ UNCHANGED <<document, configuration, swarm>>
    /\ UNCHANGED notLoad

\* data_source.py:219-235: the configuration of the loaded agents is
\* constructed and returned, or its construction raises
Resolve ==
    /\ lpc = "load"
    /\ Len(loaded_agents) = Len(configuration.agentReferences)
    /\ configuration' = resolved_configuration(configuration, loaded_agents)
    /\ lpc' = IF configuration'.valid THEN "create_swarm" ELSE "raised"
    /\ UNCHANGED <<document, loaded_agents, swarm>>
    /\ UNCHANGED notLoad

\* create_swarm is called with the configuration
CallCreateSwarm ==
    /\ lpc = "create_swarm"
    /\ swarm' = create_swarm(configuration)
    /\ lpc' = "done"
    /\ UNCHANGED <<document, loaded_agents, configuration>>
    /\ UNCHANGED notLoad

(***************************************************************************)
(* create_swarm on its own, called with any configuration object of agent  *)
(* definitions and an entryAgent, as the tests of the factory call it      *)
(* (tests/test_factory_integration.py).                                    *)
(***************************************************************************)
InitFactory ==
    /\ AppIdle /\ StreamIdle /\ AnswerIdle /\ TypesIdle /\ ExtIdle
    /\ lpc = "create_swarm"
    /\ document = NoDocument
    /\ loaded_agents = <<>>
    /\ \E names \in NameLists \ {<<>>}, entryAgent \in EntryNames :
          configuration = [valid |-> TRUE,
                           agents |-> [i \in 1..Len(names) |-> SwarmAgentDefinition(names[i])],
                           agentReferences |-> <<>>,
                           entryAgent |-> entryAgent]
    /\ swarm = NotCalled

NextFactory == CallCreateSwarm

SpecFactory == InitFactory /\ [][NextFactory]_vars

\* C12: create_swarm, called with a configuration whose entryAgent is not the
\* name of any of its agents, does not return a swarm: it raises ValueError.
C12_EntryValidity ==
    (swarm.kind # "None" /\ configuration.entryAgent \notin AgentNames(configuration.agents))
        => swarm.kind = "ValueError"

\* create_swarm has raised for a configuration of two agents of which none
\* has the entryAgent as its name
C12_Witness ==
    /\ swarm.kind = "ValueError"
    /\ Len(configuration.agents) = 2
    /\ configuration.entryAgent \notin AgentNames(configuration.agents)

(***************************************************************************)
(* parse_configuration from the document on, followed by create_swarm.     *)
(* A document has agents, references, or one of each.                      *)
(***************************************************************************)
InitLoad ==
    /\ AppIdle /\ StreamIdle /\ AnswerIdle /\ TypesIdle /\ ExtIdle
    /\ lpc = "deserialize"
    /\ \E names \in NameLists \ {<<>>}, entryAgent \in EntryNames :
          \/ document = [agents |-> names, agentReferences |-> <<>>,
                         entryAgent |-> entryAgent]
          \/ document = [agents |-> <<>>, agentReferences |-> names,
                         entryAgent |-> entryAgent]
          \/ /\ Len(names) = 1
             /\ \E ref \in RawNames :
                   document = [agents |-> names, agentReferences |-> <<ref>>,
                               entryAgent |-> entryAgent]
    /\ loaded_agents = <<>>
    /\ configuration = NoConfiguration
    /\ swarm = NotCalled

NextLoad ==
    \/ Deserialize
    \/ \E raises \in BOOLEAN : LoadAgentConfig(raises)
    \/ Resolve
    \/ CallCreateSwarm

SpecLoad == InitLoad /\ [][NextLoad]_vars

\* C13: the configuration that parse_configuration returns, which is the one
\* handed to create_swarm, names its agents uniquely and has its entryAgent
\* among those names; when the document had references only, its agents are
\* the definitions loaded for the references, in their order and under their
\* sanitized names, and no reference is left in it.
C13_ResolvedConfigurationValid ==
    lpc \in {"create_swarm", "done"} =>
        /\ Cardinality(AgentNames(configuration.agents)) = Len(configuration.agents)
        /\ configuration.entryAgent \in AgentNames(configuration.agents)
        /\ document.agents = <<>> =>
              /\ configuration.agentReferences = <<>>
              /\ Len(configuration.agents) = Len(document.agentReferences)
              /\ \A i \in 1..Len(configuration.agents) :
                    configuration.agents[i].name =
                        validate_and_sanitize_name(document.agentReferences[i])

\* a document of two references was resolved, one of them under a name that
\* sanitizing changed, and its configuration was handed to create_swarm
C13_Witness ==
    /\ lpc = "done"
    /\ swarm.kind = "Swarm"
    /\ document.agents = <<>>
    /\ Len(configuration.agents) = 2
    /\ \E i \in 1..2 : configuration.agents[i].name # document.agentReferences[i]

(***************************************************************************)
(* The final answer of a swarm call on its own: invoke, app.py:238-288,    *)
(* from the outcome of SWARM(user_message) to the payload it yields.       *)
(***************************************************************************)
notAnswer == <<appvars, streamvars, loadvars, typevars, extvars>>

InitAnswer ==
    /\ AppIdle /\ StreamIdle /\ LoadIdle /\ TypesIdle /\ ExtIdle
    /\ result \in SwarmOutcomes
    /\ payload = [action |-> "None"]

BuildFinalAnswer ==
    /\ payload.action = "None"
    /\ payload' = FinalAnswerPayload(result)
    /\ UNCHANGED result
    /\ UNCHANGED notAnswer

NextAnswer == BuildFinalAnswer

SpecAnswer == InitAnswer /\ [][NextAnswer]_vars

\* the sections of the reasoning text are those of the visits before the
\* last, labelled 1, 2, ... in the order of the visits
SectionsOfPriorVisits ==
    /\ Len(payload.reasoningContent) = Len(result.node_history) - 1
    /\ \A i \in 1..Len(payload.reasoningContent) : payload.reasoningContent[i].label = i

MaxValue == 3
MaxTools == 2

\* types.py:264-269: the defaults of SwarmOrchestratorConfig
DefaultMaxHandoffs == 20
DefaultMaxIterations == 20
DefaultExecutionTimeoutSeconds == 900
DefaultNodeTimeoutSeconds == 300
DefaultRepetitiveHandoffDetectionWindow == 8
DefaultRepetitiveHandoffMinUniqueAgents == 3

OrchestratorFields ==
    {"maxHandoffs", "maxIterations", "executionTimeoutSeconds", "nodeTimeoutSeconds",
     "repetitiveHandoffDetectionWindow", "repetitiveHandoffMinUniqueAgents"}

OrchestratorDefaults ==
    [maxHandoffs |-> DefaultMaxHandoffs,
     maxIterations |-> DefaultMaxIterations,
     executionTimeoutSeconds |-> DefaultExecutionTimeoutSeconds,
     nodeTimeoutSeconds |-> DefaultNodeTimeoutSeconds,
     repetitiveHandoffDetectionWindow |-> DefaultRepetitiveHandoffDetectionWindow,
     repetitiveHandoffMinUniqueAgents |-> DefaultRepetitiveHandoffMinUniqueAgents]

\* the values a field is given: small ones around the field's own limit and,
\* for a field compared with another, one beyond that other's default
GivenValues(field) ==
    (-1..MaxValue) \cup
    CASE field = "executionTimeoutSeconds" -> {DefaultNodeTimeoutSeconds - 1}
      [] field = "nodeTimeoutSeconds" -> {DefaultExecutionTimeoutSeconds + 1}
      [] field = "repetitiveHandoffMinUniqueAgents" ->
            {DefaultRepetitiveHandoffDetectionWindow}
      [] OTHER -> {}

OrchestratorData ==
    UNION {{f \in [given -> UNION {GivenValues(field) : field \in given}] :
               \A field \in given : f[field] \in GivenValues(field)} :
              given \in SUBSET OrchestratorFields}

\* the fields of the object: the given value or the default
FieldValues(fields) ==
    [field \in OrchestratorFields |->
        IF field \in DOMAIN fields THEN fields[field] ELSE OrchestratorDefaults[field]]

\* types.py:264-269: ge=1, ge=1, gt=0, gt=0, ge=2, ge=2, on the given values
FieldConstraintsHold(fields) ==
    \A field \in DOMAIN fields :
        CASE field \in {"maxHandoffs", "maxIterations"} -> fields[field] >= 1
          [] field \in {"executionTimeoutSeconds", "nodeTimeoutSeconds"} -> fields[field] > 0
          [] OTHER -> fields[field] >= 2

\* types.py:271-278 validate_timeout_consistency raises
timeout_inconsistent(o) == o.nodeTimeoutSeconds > o.executionTimeoutSeconds

window_below_min_unique(o) ==
    o.repetitiveHandoffDetectionWindow < o.repetitiveHandoffMinUniqueAgents

\* types.py:280-291 validate_detection_window raises
window_not_above_min_unique(o) ==
    o.repetitiveHandoffDetectionWindow <= o.repetitiveHandoffMinUniqueAgents

\* SwarmOrchestratorConfig(**fields), types.py:252-291: the object or a
\* ValidationError; the validators of the model run on valid fields only
SwarmOrchestratorConfig(fields) ==
    IF /\ FieldConstraintsHold(fields)
       /\ ~timeout_inconsistent(FieldValues(fields))
       /\ ~window_not_above_min_unique(FieldValues(fields))
    THEN [kind |-> "SwarmOrchestratorConfig", fields |-> FieldValues(fields)]
    ELSE [kind |-> "ValidationError"]

ToolNames == {"t1", "t2", "t3"}

ToolLists == UNION {[1..n -> ToolNames] : n \in 0..MaxTools}

no_invalid_keys(tools, toolParameters) == {}

\* types.py:318-319: set(self.toolParameters.keys()) - tool_names;
\* toolParameters is written as the set of its keys
invalid_keys(tools, toolParameters) ==
    toolParameters \ {tools[i] : i \in 1..Len(tools)}

\* SwarmAgentDefinition(name=..., tools=..., toolParameters=...),
\* types.py:294-322: an empty name is refused (min_length=1), the name is
\* sanitized and the keys of toolParameters are checked against tools
ValidatedAgentDefinition(name, tools, toolParameters) ==
    IF name = <<>> \/ invalid_keys(tools, toolParameters) # {}
    THEN [kind |-> "ValidationError"]
    ELSE [kind |-> "SwarmAgentDefinition",
          name |-> validate_and_sanitize_name(name),
          tools |-> tools,
          toolParameters |-> toolParameters]

notTypes == <<appvars, streamvars, loadvars, answervars, extvars>>

InitTypes ==
    /\ AppIdle /\ StreamIdle /\ LoadIdle /\ AnswerIdle /\ ExtIdle
    /\ \/ \E fields \in OrchestratorData :
             data = [model |-> "SwarmOrchestratorConfig", fields |-> fields]
       \/ \E name \in RawNames \cup {<<>>}, tools \in ToolLists,
               toolParameters \in SUBSET ToolNames :
             data = [model |-> "SwarmAgentDefinition", name |-> name, tools |-> tools,
                     toolParameters |-> toolParameters]
    /\ model = [kind |-> "None"]

ValidateOrchestratorConfig ==
    /\ model.kind = "None"
    /\ data.model = "SwarmOrchestratorConfig"
    /\ model' = SwarmOrchestratorConfig(data.fields)
    /\ UNCHANGED data
    /\ UNCHANGED notTypes

ValidateAgentDefinition ==
    /\ model.kind = "None"
    /\ data.model = "SwarmAgentDefinition"
    /\ model' = ValidatedAgentDefinition(data.name, data.tools, data.toolParameters)
    /\ UNCHANGED data
    /\ UNCHANGED notTypes

NextTypes ==
    \/ ValidateOrchestratorConfig
    \/ ValidateAgentDefinition

SpecTypes == InitTypes /\ [][NextTypes]_vars

\* the bounds that the claim lists, on the fields of an object
OrchestratorBounds(o) ==
    /\ o.maxHandoffs >= 1
    /\ o.maxIterations >= 1
    /\ 0 < o.nodeTimeoutSeconds
    /\ o.nodeTimeoutSeconds <= o.executionTimeoutSeconds
    /\ o.repetitiveHandoffDetectionWindow >= 2
    /\ o.repetitiveHandoffMinUniqueAgents >= 2
    /\ o.repetitiveHandoffDetectionWindow > o.repetitiveHandoffMinUniqueAgents

\* C19: the construction of a SwarmOrchestratorConfig gives an object exactly
\* when the values of its six fields, given or defaulted to 20, 20, 900, 300,
\* 8 and 3, keep the bounds, and the object has those values; any other data
\* end in a validation error.
C19_OrchestratorBoundsValidated ==
    (data.model = "SwarmOrchestratorConfig" /\ model.kind # "None") =>
        /\ model.kind = "SwarmOrchestratorConfig" <=> OrchestratorBounds(FieldValues(data.fields))
        /\ model.kind = "SwarmOrchestratorConfig" =>
              /\ model.fields = FieldValues(data.fields)
              /\ OrchestratorBounds(model.fields)
        /\ DOMAIN data.fields = {} =>
              /\ model.kind = "SwarmOrchestratorConfig"
              /\ model.fields.maxHandoffs = 20
              /\ model.fields.maxIterations = 20
              /\ model.fields.executionTimeoutSeconds = 900
              /\ model.fields.nodeTimeoutSeconds = 300
              /\ model.fields.repetitiveHandoffDetectionWindow = 8
              /\ model.fields.repetitiveHandoffMinUniqueAgents = 3

\* an object was accepted whose six fields were all given, at the edge of the
\* bounds: equal timeouts and a window one above the minimum of unique agents
C19_Witness ==
    /\ model.kind = "SwarmOrchestratorConfig"
    /\ DOMAIN data.fields = OrchestratorFields
    /\ model.fields.nodeTimeoutSeconds = model.fields.executionTimeoutSeconds
    /\ model.fields.repetitiveHandoffDetectionWindow =
           model.fields.repetitiveHandoffMinUniqueAgents + 1

\* C20: an accepted agent definition has every key of its toolParameters in
\* its tools, and data with a key of toolParameters that is not in tools end
\* in a validation error.
C20_ToolParametersInTools ==
    (data.model = "SwarmAgentDefinition" /\ model.kind # "None") =>
        /\ model.kind = "SwarmAgentDefinition" =>
              model.toolParameters \subseteq {model.tools[i] : i \in 1..Len(model.tools)}
        /\ (\E key \in data.toolParameters : \A i \in 1..Len(data.tools) : data.tools[i] # key)
              => model.kind = "ValidationError"

\* a definition was refused that has a name, a key of toolParameters among
\* its tools and another key that is not
C20_Witness ==
    /\ data.model = "SwarmAgentDefinition"
    /\ model.kind = "ValidationError"
    /\ data.name # <<>>
    /\ \E key \in data.toolParameters : \E i \in 1..Len(data.tools) : data.tools[i] = key
    /\ \E key \in data.toolParameters : \A i \in 1..Len(data.tools) : data.tools[i] # key

(***************************************************************************)
(* Name sanitization on its own: SwarmAgentDefinition constructed for      *)
(* names over a wider alphabet -- lower and upper case letter, digit, the  *)
(* three kept punctuation characters, a space and another character.       *)
(***************************************************************************)
SanitizeChars == NameChars \cup {"A", "1", "-", "/", "@"}

SanitizeNames == UNION {[1..n -> SanitizeChars] : n \in 1..MaxNameLen}

InitNames ==
    /\ AppIdle /\ StreamIdle /\ LoadIdle /\ AnswerIdle /\ ExtIdle
    /\ \E name \in SanitizeNames \cup {<<>>} :
          data = [model |-> "SwarmAgentDefinition", name |-> name, tools |-> <<>>,
                  toolParameters |-> {}]
    /\ model = [kind |-> "None"]

NextNames == ValidateAgentDefinition

SpecNames == InitNames /\ [][NextNames]_vars

\* the characters of the pattern [a-zA-Z0-9] that names of the model can hold
AlnumChars == {"a", "e", "g", "n", "t", "A", "1"}

\* C21: the name of a SwarmAgentDefinition constructed for a non-empty name
\* holds only letters, digits, '-', '_' and '/', and starts with a letter or
\* a digit; a non-empty name is never refused for its characters.
C21_NameSanitized ==
    (data.model = "SwarmAgentDefinition" /\ data.name # <<>> /\ data.toolParameters = {}
        /\ model.kind # "None") =>
        /\ model.kind = "SwarmAgentDefinition"
        /\ model.name # <<>>
        /\ \A i \in 1..Len(model.name) : model.name[i] \in AlnumChars \cup {"-", "_", "/"}
        /\ model.name[1] \in AlnumChars

\* a definition was constructed for a name that starts with a space and
\* holds a character outside the pattern: the name got the prefix and both
\* characters became underscores
C21_Witness ==
    /\ model.kind = "SwarmAgentDefinition"
    /\ data.name = <<" ", "@">>
    /\ model.name = <<"a", "g", "e", "n", "t", "_", "_", "_">>

\* C28: whenever a request has called the cached swarm or agent, every MCP
\* connection that its tools were loaded from is still started: no
\* cleanup_connections has closed it since the swarm or agent was built.
C28_InvokedWithLiveConnections ==
    invoked # NoSwarm => invoked.mcp_tools \subseteq started

(***************************************************************************)
(* One MCPClientManager (lib/agent-core/docker/src/mcp_client.py) under    *)
(* any sequence of calls of init_mcp_clients, load_mcp_tools and           *)
(* cleanup_connections.  The callers are the entrypoints invoke, which run *)
(* these synchronous methods without awaiting (docker/app.py:85-152), so   *)
(* requests that are served concurrently order whole calls.  An MCPClient  *)
(* is a number; its session is active from a start() that returned until   *)
(* stop() or until the connection drops.                                   *)
(***************************************************************************)
MaxCalls == 3
MaxServers == 2

ServerLists == UNION {[1..n -> McpServers] : n \in 1..MaxServers}

\* self.mcp_clients[name], for a name that is a key
ClientOf(clients, name) == (CHOOSE p \in clients : p[1] = name)[2]

\* self.mcp_clients[name] = client
SetClient(clients, name, client) ==
    {p \in clients : p[1] # name} \cup {<<name, client>>}

never_reused(clients, act, name) == FALSE

\* mcp_client.py:125-134: the name has a client with an active session
reused(clients, act, name) ==
    \E p \in clients : p[1] = name /\ p \in act

\* the state of a manager inside a call
ManagerState(clients, act, nxt, dbl, call, raised) ==
    [mcp_clients |-> clients, active |-> act, next_client |-> nxt,
     double_opened |-> dbl, last_call |-> call, raised |-> raised]

\* mcp_client.py:122-145 init_mcp_clients from the i-th server on, the call
\* of start() in iteration fail_at raising (0: none does).  _create_mcp_client
\* (mcp_client.py:55-114) gives the client the name has, raises ValueError
\* for a name outside AVAILABLE_MCPS, or makes a new client.
RECURSIVE init_mcp_clients_from(_, _, _)
init_mcp_clients_from(i, fail_at, m) ==
    IF i > Len(mcp_servers) THEN m
    ELSE LET name == mcp_servers[i]
             known == \E p \in m.mcp_clients : p[1] = name
             client == IF known THEN ClientOf(m.mcp_clients, name) ELSE m.next_client
         IN  IF reused(m.mcp_clients, m.active, name)
             THEN init_mcp_clients_from(i + 1, fail_at,
                      [m EXCEPT !.last_call.reused = @ \cup {name}])
             ELSE IF ~known /\ name \notin AVAILABLE_MCPS
             THEN [m EXCEPT !.raised = "ValueError"]
             ELSE IF i = fail_at
             THEN [m EXCEPT !.raised = "MCPClientInitializationError",
                            !.next_client = IF known THEN @ ELSE @ + 1]
             ELSE init_mcp_clients_from(i + 1, fail_at,
                      [m EXCEPT !.mcp_clients = SetClient(@, name, client),
                                !.active = @ \cup {<<name, client>>},
                                !.next_client = IF known THEN @ ELSE @ + 1,
                                !.double_opened =
                                    IF \E c \in m.active : c[1] = name
                                    THEN @ \cup {name} ELSE @,
                                !.last_call.started = @ \cup {name}])

CallStart(method) ==
    ManagerState(mcp_clients, active, next_client, double_opened,
                 [method |-> method, started |-> {}, reused |-> {}], None)

\* the manager after a call that left it in state m
Called(m) ==
    /\ calls < MaxCalls
    /\ calls' = calls + 1
    /\ mcp_clients' = m.mcp_clients
    /\ active' = m.active
    /\ next_client' = m.next_client
    /\ double_opened' = m.double_opened
    /\ last_call' = m.last_call
    /\ UNCHANGED mcp_servers

notMcp == <<appvars, streamvars, loadvars, answervars, typevars, evalvars, ssevars>>

\* mcp_client.py:116-145
init_mcp_clients(fail_at) ==
    /\ Called(init_mcp_clients_from(1, fail_at, CallStart("init_mcp_clients")))
    /\ UNCHANGED notMcp

\* mcp_client.py:162-177: a manager without clients initialises them first;
\* list_tools_sync changes nothing of the manager
load_mcp_tools_call(fail_at) ==
    /\ Called(IF mcp_clients = {}
              THEN init_mcp_clients_from(1, fail_at, CallStart("load_mcp_tools"))
              ELSE CallStart("load_mcp_tools"))
    /\ UNCHANGED notMcp

\* mcp_client.py:147-160: every client is stopped and the dict cleared; when
\* a stop() raises, the clients in stopped are the ones it has closed and
\* the dict stays as it is
cleanup_connections(raises, stopped) ==
    /\ stopped \subseteq mcp_clients
    /\ raises => mcp_clients # {}
    /\ Called([CallStart("cleanup_connections") EXCEPT
                  !.active = @ \ (IF raises THEN stopped ELSE mcp_clients),
                  !.mcp_clients = IF raises THEN @ ELSE {}])
    /\ ~raises => stopped = mcp_clients
    /\ UNCHANGED notMcp

\* the server or the network ends the session of a client
ConnectionDrops(c) ==
    /\ c \in active
    /\ active' = active \ {c}
    /\ UNCHANGED <<mcp_servers, mcp_clients, next_client, double_opened, calls, last_call>>
    /\ UNCHANGED notMcp

InitMcp ==
    /\ app = None
    /\ AVAILABLE_MCPS \in SUBSET McpServers
    /\ AppStart
    /\ StreamIdle /\ LoadIdle /\ AnswerIdle /\ TypesIdle /\ EvalIdle /\ SseIdle
    /\ mcp_servers \in ServerLists
    /\ mcp_clients = {}
    /\ active = {}
    /\ next_client = 1
    /\ double_opened = {}
    /\ calls = 0
    /\ last_call = NoCall

NextMcp ==
    \/ \E fail_at \in 0..MaxServers : init_mcp_clients(fail_at)
    \/ \E fail_at \in 0..MaxServers : load_mcp_tools_call(fail_at)
    \/ \E raises \in BOOLEAN, stopped \in SUBSET mcp_clients :
          cleanup_connections(raises, stopped)
    \/ \E c \in active : ConnectionDrops(c)

SpecMcp == InitMcp /\ [][NextMcp]_vars

MaxBatch == 2
MaxDeliveries == 3
MaxInvocations == 2
MaxEvaluations == 1

notEval == <<appvars, streamvars, loadvars, answervars, typevars, mcpvars, ssevars>>

\* the batches SQS can hand to one invocation: visible messages, in any order
Batches ==
    {b \in UNION {[1..n -> queue] : n \in 1..MaxBatch} :
        \A i, j \in 1..Len(b) : b[i] = b[j] => i = j}

\* evaluation-resolver/index.py:346-418
run_evaluation(total) ==
    /\ Status \in {"Created", "Failed"}
    /\ evaluations < MaxEvaluations
    /\ evaluations' = evaluations + 1
    /\ Status' = "Running"
    /\ TotalCases' = total
    /\ CompletedCases' = 0
    /\ queue' = queue \cup 0..(total - 1)
    /\ UNCHANGED <<inflight, increments, finalized, deliveries>>
    /\ UNCHANGED notEval

\* the Lambda service invokes handler (evaluation-executor/index.py:871-895)
\* with a batch
Deliver(batch) ==
    /\ deliveries < MaxDeliveries
    /\ Cardinality(inflight) < MaxInvocations
    /\ deliveries' = deliveries + 1
    /\ queue' = queue \ {batch[i] : i \in 1..Len(batch)}
    /\ inflight' = inflight \cup {[batch |-> batch, at |-> 1]}
    /\ UNCHANGED <<Status, TotalCases, CompletedCases, increments, finalized, evaluations>>
    /\ UNCHANGED notEval

no_update == UNCHANGED <<CompletedCases, increments, Status, finalized>>

\* evaluation-executor/index.py:644-700 _update_progress for a test case:
\* CompletedCases is incremented in the item, and the evaluation finalized
\* when the new value has reached TotalCases; _finalize_evaluation
\* (index.py:703-757) sets Completed, or Failed when it fails
update_progress(test_case_index) ==
    /\ CompletedCases' = CompletedCases + 1
    /\ increments' = [increments EXCEPT ![test_case_index] = @ + 1]
    /\ IF CompletedCases + 1 >= TotalCases /\ TotalCases > 0
       THEN /\ finalized' = TRUE
            /\ Status' \in {"Completed", "Failed"}
       ELSE UNCHANGED <<Status, finalized>>

\* the outcomes of process_record (index.py:102-199): "ok", steps 1-4 went
\* through; "failed", a step raised and the handler at index.py:177-187
\* counted the case as failed before raising again; "not counted", the
\* update of the item raised there as well
Outcomes == {"ok", "failed", "not counted"}

\* handler, index.py:884-890: the next record of an invocation is processed;
\* an exception ends the invocation and the whole batch becomes visible again
process_record(inv, outcome) ==
    /\ inv \in inflight
    /\ IF outcome = "not counted"
       THEN no_update
       ELSE update_progress(inv.batch[inv.at])
    /\ IF outcome = "ok"
       THEN /\ inflight' = (inflight \ {inv}) \cup
                              (IF inv.at < Len(inv.batch)
                               THEN {[inv EXCEPT !.at = @ + 1]} ELSE {})
            /\ UNCHANGED queue
       ELSE /\ inflight' = inflight \ {inv}
            /\ queue' = queue \cup {inv.batch[i] : i \in 1..Len(inv.batch)}
    /\ UNCHANGED <<TotalCases, deliveries, evaluations>>
    /\ UNCHANGED notEval

InitEval ==
    /\ AppIdle /\ StreamIdle /\ LoadIdle /\ AnswerIdle /\ TypesIdle /\ McpIdle
    /\ SseIdle
    /\ Status = "Created"
    /\ TotalCases = 0
    /\ CompletedCases = 0
    /\ queue = {}
    /\ inflight = {}
    /\ increments = [i \in TestCases |-> 0]
    /\ finalized = FALSE
    /\ deliveries = 0
    /\ evaluations = 0

NextEval ==
    \/ \E total \in 1..MaxCases : run_evaluation(total)
    \/ \E batch \in Batches : Deliver(batch)
    \/ \E inv \in inflight, outcome \in Outcomes : process_record(inv, outcome)

SpecEval == InitEval /\ [][NextEval]_vars

\* C29: every test case has caused at most one increment of CompletedCases,
\* CompletedCases is at most TotalCases, and the evaluation is finalized
\* only when each of its TotalCases test cases has been counted.
C29_EachCaseCountedOnce ==
    /\ \A i \in TestCases : increments[i] <= 1
    /\ CompletedCases <= TotalCases
    /\ finalized => \A i \in 0..(TotalCases - 1) : increments[i] >= 1

(***************************************************************************)
(* handle_run reading the response of the agent runtime                    *)
(* (lib/genai-interface/functions/agent-core/index.py:197-234).  The       *)
(* runtime writes every payload it yields as a line "data: <json>" closed  *)
(* by an empty line.  Text is a sequence of characters; the character      *)
(* "eacute" takes the two bytes C3 A9 in UTF-8, every other character one  *)
(* byte.  The JSON of the model is objects nested in objects around the    *)
(* atoms x, eacute and e, the last standing for a payload with "error".    *)
(***************************************************************************)
MaxStreamEvents == 2

EventBodies ==
    { <<"{", "x", "}">>, <<"{", "eacute", "}">>, <<"{", "{", "}", "}">>,
      <<"{", "e", "}">> }

Responses == UNION {[1..n -> EventBodies] : n \in 1..MaxStreamEvents}

EventLine(body) == <<"d", "a", "t", "a", ":", " ">> \o body \o <<"\n", "\n">>

RECURSIVE StreamText(_)
StreamText(evs) ==
    IF evs = <<>> THEN <<>> ELSE EventLine(Head(evs)) \o StreamText(Tail(evs))

\* the UTF-8 encoding of a text
RECURSIVE utf8_encode(_)
utf8_encode(text) ==
    IF text = <<>> THEN <<>>
    ELSE (IF Head(text) = "eacute" THEN <<"C3", "A9">> ELSE <<Head(text)>>)
         \o utf8_encode(Tail(text))

StreamBytes(evs) == utf8_encode(StreamText(evs))

\* index.py:198-202: utf8_decoder.decode(chunk, final=False) with the bytes
\* held back before: the characters that are complete, and the bytes of an
\* incomplete one
RECURSIVE utf8_decode(_)
utf8_decode(bytes) ==
    IF bytes = <<>> THEN [text |-> <<>>, pending |-> <<>>]
    ELSE IF Head(bytes) = "C3"
    THEN IF Len(bytes) = 1
         THEN [text |-> <<>>, pending |-> bytes]
         ELSE LET rest == utf8_decode(Tail(Tail(bytes)))
              IN  [rest EXCEPT !.text = <<"eacute">> \o @]
    ELSE LET rest == utf8_decode(Tail(bytes))
         IN  [rest EXCEPT !.text = <<Head(bytes)>> \o @]

\* index.py:267  re.search(r"data: ({.*?})\n", unparsed_data): the leftmost
\* "data: {" that a "}" and a newline follow with no newline in between, up
\* to the first such "}"
MatchEnds(s, i) ==
    {j \in (i + 7)..(Len(s) - 1) :
        /\ s[j] = "}"
        /\ s[j + 1] = "\n"
        /\ \A k \in (i + 7)..(j - 1) : s[k] # "\n"}

MatchStarts(s) ==
    {i \in 1..(Len(s) - 6) :
        /\ SubSeq(s, i, i + 6) = <<"d", "a", "t", "a", ":", " ", "{">>
        /\ MatchEnds(s, i) # {}}

Least(S) == CHOOSE n \in S : \A m \in S : n <= m

re_search(s) ==
    IF MatchStarts(s) = {}
    THEN [found |-> FALSE, start |-> 0, end |-> 0, group |-> <<>>]
    ELSE LET i == Least(MatchStarts(s))
             j == Least(MatchEnds(s, i))
         IN  [found |-> TRUE, start |-> i, end |-> j + 1, group |-> SubSeq(s, i + 6, j)]

\* braces opened and not closed in the first k characters
Depth(text, k) ==
    Cardinality({i \in 1..k : text[i] = "{"}) - Cardinality({i \in 1..k : text[i] = "}"})

\* index.py:271 json.loads accepts the text: one object, closed at the end
IsJson(text) ==
    /\ Len(text) >= 2
    /\ text[1] = "{"
    /\ Depth(text, Len(text)) = 0
    /\ \A k \in 1..(Len(text) - 1) : Depth(text, k) > 0

drop_unparsed(parsed_events, unparsed_data) == <<parsed_events, <<>>>>

\* index.py:280 return parsed_events, unparsed_data
parse_result(parsed_events, unparsed_data) == <<parsed_events, unparsed_data>>

\* index.py:254-280 parse_events, from the state of its loop
RECURSIVE parse_events_loop(_, _)
parse_events_loop(parsed_events, unparsed_data) ==
    LET event_match == re_search(unparsed_data) IN
    IF ~event_match.found \/ ~IsJson(event_match.group)
    THEN parse_result(parsed_events, unparsed_data)
    ELSE parse_events_loop(
             Append(parsed_events, event_match.group),
             SubSeq(unparsed_data, 1, event_match.start - 1) \o
             SubSeq(unparsed_data, event_match.end + 1, Len(unparsed_data)))

parse_events(stream) == parse_events_loop(<<>>, stream)

\* index.py:209 event.get("error")
IsErrorEvent(event) == \E i \in 1..Len(event) : event[i] = "e"

\* index.py:204-214: the events sent before one with an error raises
UpToError(evs) ==
    LET errors == {i \in 1..Len(evs) : IsErrorEvent(evs[i])}
    IN  IF errors = {} THEN evs ELSE SubSeq(evs, 1, Least(errors) - 1)

notSse == <<appvars, streamvars, loadvars, answervars, typevars, mcpvars, evalvars>>

\* index.py:200-214: one chunk of n bytes is decoded, the buffer parsed and
\* the events sent to the client, up to an event with an error, which raises
TakeChunk(n) ==
    /\ ~run_ended
    /\ run_raised = None
    /\ consumed + n <= Len(StreamBytes(response))
    /\ LET chunk == SubSeq(StreamBytes(response), consumed + 1, consumed + n)
           decoded == utf8_decode(utf8_pending \o chunk)
           parsed == parse_events(buffer \o decoded.text)
       IN  /\ consumed' = consumed + n
           /\ utf8_pending' = decoded.pending
           /\ buffer' = parsed[2]
           /\ sent' = sent \o UpToError(parsed[1])
           /\ run_raised' = IF UpToError(parsed[1]) # parsed[1]
                            THEN "AcaException" ELSE None
           /\ split_char' = (split_char \/ decoded.pending # <<>>)
           /\ split_event' = (split_event \/ \E i \in 1..Len(parsed[2]) : parsed[2][i] # "\n")
    /\ UNCHANGED <<response, run_ended>>
    /\ UNCHANGED notSse

\* index.py:216-231: the stream has ended; the decoder is flushed, which
\* raises on an incomplete character and gives no text otherwise
EndOfStream ==
    /\ ~run_ended
    /\ run_raised = None
    /\ consumed = Len(StreamBytes(response))
    /\ run_ended' = TRUE
    /\ run_raised' = IF utf8_pending # <<>> THEN "UnicodeDecodeError" ELSE None
    /\ UNCHANGED <<response, consumed, utf8_pending, buffer, sent, split_char, split_event>>
    /\ UNCHANGED notSse

InitSse ==
    /\ AppIdle /\ StreamIdle /\ LoadIdle /\ AnswerIdle /\ TypesIdle /\ McpIdle /\ EvalIdle
    /\ response \in Responses
    /\ consumed = 0
    /\ utf8_pending = <<>>
    /\ buffer = <<>>
    /\ sent = <<>>
    /\ run_raised = None
    /\ run_ended = FALSE
    /\ split_char = FALSE
    /\ split_event = FALSE

NextSse ==
    \/ \E n \in 1..Len(StreamBytes(response)) : TakeChunk(n)
    \/ EndOfStream

SpecSse == InitSse /\ [][NextSse]_vars

\* the events of the response whose line, up to its newline, lies within
\* the first p bytes of the stream
CompleteEvents(p) ==
    LET n == Cardinality({k \in 1..Len(response) :
                 Len(StreamBytes(SubSeq(response, 1, k))) - 1 <= p})
    IN  SubSeq(response, 1, n)

====
